---- MODULE Spec2Model ----
(***************************************************************************)
(* Model of the scroll-driven section tracker of the SinglePagePortfolio   *)
(* component (src/unnamed/part_000, the page with the article feed; the    *)
(* older page src/unnamed/part_001 has the same scroll effect).            *)
(*                                                                         *)
(* The browser is the environment: it owns the scroll offset, the viewport *)
(* height, the document layout, the animation-frame queue and the smooth   *)
(* scroll animation. The component owns its React state and the `ticking`  *)
(* flag of the scroll effect's closure.                                    *)
(***************************************************************************)
EXTENDS Integers, Sequences, FiniteSets, TLC

VARIABLES
    mounted,          \* the scroll listener is attached (between effect run and cleanup)
    activeSection,    \* useState('home')
    showBackToTop,    \* useState(false)
    mobileMenuOpen,   \* useState(false)
    bodyOverflow,     \* document.body.style.overflow
    ticking,          \* `let ticking` of the scroll effect closure
    rafQueue,         \* number of frame callbacks requested and not yet run
    scrollY,          \* window.scrollY
    innerHeight,      \* window.innerHeight
    layout,           \* name of the document layout currently rendered
    smooth,           \* the browser's smooth-scroll animation
    articles,         \* useState<Article[]>([])
    articlesLoading,  \* useState(true)
    fetchPc,          \* position of the async fetchArticles
    console,          \* messages written with console.error
    requestsSent,     \* history: number of fetch(...) calls made by fetchArticles
    eventsSinceFrame, \* history: scroll events delivered to throttledScroll since the last frame callback
    scheduledAt,      \* history: window.scrollY when the latest frame callback was requested
    lastNav,          \* history: the latest scrollToSection call and the number of window.scrollTo commands it issued
    activeWrites,     \* history: number of setActiveSection calls made by the latest handleScroll
    lastPass,         \* history: "mounted" until the offset or the geometry changes or handleScroll runs; then "outdated" after a change, "current" after the first handleScroll since a change, "repeated" after a further one
    recordSchedule,   \* whether the history variables scheduledAt, activeWrites and lastPass are kept in this behaviour
    now,              \* Date.now(), in ms since the page was loaded
    clockDate,        \* the year and month (1 to 12) that new Date() gives
    cachedYear,       \* `let cachedYear` of dateUtils
    cachedMonth,      \* `let cachedMonth` of dateUtils
    lastCheck,        \* `let lastCheck` of dateUtils
    readAt,           \* history: Date.now() at the latest new Date() of getCachedDate
    lastCall          \* history: the latest call of an exported function of dateUtils, its Date.now() and what it returned

pageVars == <<mounted, activeSection, showBackToTop, mobileMenuOpen, bodyOverflow,
          ticking, rafQueue, scrollY, innerHeight, layout, smooth,
          articles, articlesLoading, fetchPc, console, requestsSent, eventsSinceFrame, scheduledAt,
          lastNav, activeWrites, lastPass, recordSchedule>>

dateVars == <<now, clockDate, cachedYear, cachedMonth, lastCheck, readAt, lastCall>>

vars == <<pageVars, dateVars>>

trackerVars == <<activeSection, showBackToTop, ticking, rafQueue>>
menuVars == <<mobileMenuOpen, bodyOverflow>>
fetchVars == <<articles, articlesLoading, fetchPc, console, requestsSent>>
browserVars == <<scrollY, innerHeight, layout, smooth>>
historyVars == <<eventsSinceFrame, scheduledAt, lastNav, activeWrites, lastPass, recordSchedule>>

----------------------------------------------------------------------------
(* Program constants *)

\* const sections = useMemo(() => ['home', 'about', ...], [])
sections == <<"home", "about", "journey", "works", "services", "articles", "contact">>

SectionIds == {sections[i] : i \in 1..Len(sections)}

\* setShowBackToTop(window.scrollY > 300)
BackToTopThreshold == 300

\* window.scrollTo({ top: element.offsetTop - 80, behavior: 'smooth' })
NavOffset == 80

\* data.items.slice(0, 6)
MaxArticles == 6

\* the length of the excerpt kept: .substring(0, 150)
ExcerptLength == 150

\* now - lastCheck < 60000
CacheMs == 60000

\* startMonth: number = 1
DefaultStartMonth == 1

\* the null of cachedYear and cachedMonth; years and months are positive
Null == 0

----------------------------------------------------------------------------
(* Bounds of the model *)

\* scroll events delivered between two frame callbacks
MaxBurst == 2

\* items of a feed response beyond the six that are kept
MaxExtraItems == 1

\* the time the clock runs for, in cache periods
MaxPeriods == 3

----------------------------------------------------------------------------
(* The environment: document layouts, viewport heights, scroll offsets *)

Absent == [present |-> FALSE, offsetTop |-> 0, offsetHeight |-> 0]

El(top, height) == [present |-> TRUE, offsetTop |-> top, offsetHeight |-> height]

\* "regular": seven stacked sections of equal height and a footer.
\* "irregular": a short section, a section not rendered, a gap, a section of
\* height 0 and two overlapping sections.
Layouts ==
    [ regular |->
        [ height |-> 2200,
          el |-> [ home |-> El(0, 300), about |-> El(300, 300), journey |-> El(600, 300),
                   works |-> El(900, 300), services |-> El(1200, 300),
                   articles |-> El(1500, 300), contact |-> El(1800, 300) ] ],
      irregular |->
        [ height |-> 1700,
          el |-> [ home |-> El(250, 150), about |-> El(400, 100), journey |-> Absent,
                   works |-> El(600, 300), services |-> El(900, 0),
                   articles |-> El(900, 400), contact |-> El(1200, 200) ] ] ]

LayoutNames == {"regular", "irregular"}

ViewportHeights == {400, 300}

\* ids scrollToSection is called with: the configured ids and one that is not configured
NavIds == SectionIds \cup {"nonexistent"}

Max(a, b) == IF a >= b THEN a ELSE b
Min(a, b) == IF a <= b THEN a ELSE b

\* the largest scroll offset the browser allows
MaxScrollY(lay, ih) == Max(0, Layouts[lay].height - ih)

\* the browser clamps every scroll offset it is asked for
Clamp(top, lay, ih) == Max(0, Min(top, MaxScrollY(lay, ih)))

\* the offsets a user scroll (wheel, touch, keyboard, scrollbar) stops at:
\* a fine grid with the offsets around the back-to-top threshold, and a coarse one
ScrollOffsets(lay, ih) ==
    {y \in 0..MaxScrollY(lay, ih) : y % 100 = 0 \/ y \in {299, 301}}

CoarseOffsets(lay, ih) ==
    {y \in 0..MaxScrollY(lay, ih) : y % 500 = 0 \/ y = 301}

PageOffsets(lay, ih) == {0, 301, MaxScrollY(lay, ih)}

----------------------------------------------------------------------------
(* handleScroll *)

\* document.getElementById(id); a result with present = FALSE stands for null
GetElementById(id, lay) ==
    IF id \in DOMAIN Layouts[lay].el THEN Layouts[lay].el[id] ELSE Absent

\* const scrollPosition = window.scrollY + window.innerHeight / 2, kept doubled
\* so that the division by two is exact for odd viewport heights
ScrollPosition2(y, ih) == 2 * y + ih

\* InView with the end of the extent included
InViewClosed(p2, element) ==
    /\ p2 >= 2 * element.offsetTop
    /\ p2 <= 2 * (element.offsetTop + element.offsetHeight)

\* InView accepting a probe on the top edge whatever the height
InViewDegenerate(p2, element) ==
    /\ p2 >= 2 * element.offsetTop
    /\ \/ p2 < 2 * (element.offsetTop + element.offsetHeight)
       \/ p2 = 2 * element.offsetTop

\* scrollPosition >= offsetTop && scrollPosition < offsetTop + offsetHeight
InView(p2, element) ==
    /\ p2 >= 2 * element.offsetTop
    /\ p2 < 2 * (element.offsetTop + element.offsetHeight)

\* FirstMatch giving up at the first section that has no element
RECURSIVE FirstMatchStopping(_, _, _)
FirstMatchStopping(i, p2, lay) ==
    IF i > Len(sections) THEN 0
    ELSE LET element == GetElementById(sections[i], lay) IN
         IF ~element.present THEN 0
         ELSE IF InView(p2, element) THEN i
         ELSE FirstMatchStopping(i + 1, p2, lay)

\* the for loop over sections with its break: the index of the first section
\* that has an element containing the probe, 0 when the loop ends without one
RECURSIVE FirstMatch(_, _, _)
FirstMatch(i, p2, lay) ==
    IF i > Len(sections) THEN 0
    ELSE LET element == GetElementById(sections[i], lay) IN
         IF element.present /\ InView(p2, element) THEN i
         ELSE FirstMatch(i + 1, p2, lay)

\* the sections setActiveSection would be called with if the loop had no break
SetActiveSectionCallsNoBreak(p2, lay) ==
    LET matching(i) == GetElementById(sections[i], lay).present
                         /\ InView(p2, GetElementById(sections[i], lay))
    IN SelectSeq([i \in 1..Len(sections) |-> i], matching)

\* the sections setActiveSection is called with in one pass of the loop, in
\* order: the first match, after which the break leaves the loop
SetActiveSectionCalls(p2, lay) ==
    IF FirstMatch(1, p2, lay) = 0 THEN <<>> ELSE <<FirstMatch(1, p2, lay)>>

\* ActiveAfter falling back to the first section when nothing matches
ActiveAfterReset(prev, y, ih, lay) ==
    LET i == FirstMatch(1, ScrollPosition2(y, ih), lay) IN
    IF i = 0 THEN sections[1] ELSE sections[i]

\* the value of activeSection after handleScroll: setActiveSection(section) is
\* called for the first match only, and not at all without a match
ActiveAfter(prev, y, ih, lay) ==
    LET i == FirstMatch(1, ScrollPosition2(y, ih), lay) IN
    IF i = 0 THEN prev ELSE sections[i]

\* ShowBackToTopAt with the threshold itself included
ShowBackToTopFrom(y) == y >= BackToTopThreshold

\* window.scrollY > 300
ShowBackToTopAt(y) == y > BackToTopThreshold

\* the offset captured when the frame was requested instead of the live one
StaleScrollY == scheduledAt

\* the scroll offset handleScroll reads: window.scrollY when it executes
WindowScrollY == scrollY

\* HandleScroll clearing activeSection when no section matches
HandleScrollClearing ==
    /\ showBackToTop' = ShowBackToTopAt(WindowScrollY)
    /\ activeSection' =
          IF FirstMatch(1, ScrollPosition2(WindowScrollY, innerHeight), layout) = 0
          THEN "null"
          ELSE ActiveAfter(activeSection, WindowScrollY, innerHeight, layout)

\* HandleScroll flipping showBackToTop on every pass above the threshold
HandleScrollToggling ==
    /\ showBackToTop' = (ShowBackToTopAt(WindowScrollY) /\ ~showBackToTop)
    /\ activeSection' = ActiveAfter(activeSection, WindowScrollY, innerHeight, layout)

HandleScroll ==
    /\ showBackToTop' = ShowBackToTopAt(WindowScrollY)
    /\ activeSection' = ActiveAfter(activeSection, WindowScrollY, innerHeight, layout)

----------------------------------------------------------------------------
(* throttledScroll and the frame callback *)

\* the history of handleScroll passes, kept when recordSchedule is set
RecordPass(value) == lastPass' = IF recordSchedule THEN value ELSE lastPass

\* ThrottledScroll requesting a frame for every event
ThrottledScrollUngated ==
    /\ rafQueue' = rafQueue + 1
    /\ ticking' = TRUE
    /\ scheduledAt' = IF recordSchedule THEN scrollY' ELSE scheduledAt

\* ThrottledScroll putting the latest event in the place of the pending one
ThrottledScrollReplacing ==
    /\ rafQueue' = IF ticking THEN rafQueue ELSE rafQueue + 1
    /\ ticking' = TRUE
    /\ scheduledAt' = IF recordSchedule THEN scrollY' ELSE scheduledAt

\* if (!ticking) { requestAnimationFrame(...); ticking = true; }
\* Read with scrollY' already set by the step that dispatches the event.
ThrottledScroll ==
    IF ~ticking
    THEN /\ rafQueue' = rafQueue + 1
         /\ ticking' = TRUE
         /\ scheduledAt' = IF recordSchedule THEN scrollY' ELSE scheduledAt
    ELSE UNCHANGED <<rafQueue, ticking, scheduledAt>>

\* DispatchScroll with the listener still attached after the cleanup
DispatchScrollAttached ==
    /\ eventsSinceFrame < MaxBurst
    /\ eventsSinceFrame' = eventsSinceFrame + 1
    /\ ThrottledScroll

\* The browser dispatches a scroll event: throttledScroll runs while the
\* listener is attached, nothing runs after removeEventListener.
DispatchScroll ==
    IF mounted
    THEN /\ eventsSinceFrame < MaxBurst
         /\ eventsSinceFrame' = eventsSinceFrame + 1
         /\ ThrottledScroll
    ELSE UNCHANGED <<rafQueue, ticking, scheduledAt, eventsSinceFrame>>

\* FrameCallback leaving the pending flag set
FrameCallbackKeepingFlag ==
    /\ rafQueue > 0
    /\ HandleScroll
    /\ ticking' = ticking
    /\ rafQueue' = rafQueue - 1
    /\ eventsSinceFrame' = 0
    /\ RecordPass(IF lastPass \in {"current", "repeated"} THEN "repeated" ELSE "current")
    /\ UNCHANGED <<smooth, scheduledAt, activeWrites>>
    /\ UNCHANGED <<mounted, menuVars, fetchVars, scrollY, innerHeight, layout,
                   lastNav, recordSchedule, dateVars>>

\* () => { handleScroll(); ticking = false; }  run by the browser at a frame.
\* The cleanup neither cancels the request nor is there a mounted check.
FrameCallback ==
    /\ rafQueue > 0
    /\ HandleScroll
    /\ ticking' = FALSE
    /\ rafQueue' = rafQueue - 1
    /\ eventsSinceFrame' = 0
    /\ RecordPass(IF lastPass \in {"current", "repeated"} THEN "repeated" ELSE "current")
    /\ UNCHANGED <<smooth, scheduledAt>>
    /\ activeWrites' = IF recordSchedule
                       THEN Len(SetActiveSectionCalls(ScrollPosition2(WindowScrollY, innerHeight), layout))
                       ELSE activeWrites
    /\ UNCHANGED <<mounted, menuVars, fetchVars, scrollY, innerHeight, layout,
                   lastNav, recordSchedule, dateVars>>

----------------------------------------------------------------------------
(* scrollToSection, handleNavClick, the mobile menu *)

\* phase: "idle", "animating", "arrived" (the animation ended at its target and
\* neither the offset nor the layout has changed since)
Idle == [phase |-> "idle", sec |-> "none", top |-> 0]

\* ScrollTop without the allowance for the fixed navigation bar
ScrollTopNoOffset(element) == element.offsetTop

\* top: element.offsetTop - 80
ScrollTop(element) == element.offsetTop - NavOffset

\* ScrollToSection without the check for a missing element
ScrollToSectionUnchecked(sectionId) ==
    LET element == GetElementById(sectionId, layout) IN
    /\ smooth' = [phase |-> "animating", sec |-> sectionId, top |-> ScrollTop(element)]
    /\ lastNav' = [called |-> TRUE, commands |-> 1]

\* const element = document.getElementById(sectionId);
\* if (element) { window.scrollTo({ top: element.offsetTop - 80, behavior: 'smooth' }); }
\* Nothing is executed, logged or thrown when the element is null.
ScrollToSection(sectionId) ==
    LET element == GetElementById(sectionId, layout) IN
    IF element.present
    THEN /\ smooth' = [phase |-> "animating", sec |-> sectionId, top |-> ScrollTop(element)]
         /\ lastNav' = [called |-> TRUE, commands |-> 1]
    ELSE /\ UNCHANGED smooth
         /\ lastNav' = [called |-> TRUE, commands |-> 0]

\* onClick={() => scrollToSection('contact')} and the other direct callers
ClickScrollTo(sectionId) ==
    /\ mounted
    /\ ScrollToSection(sectionId)
    /\ UNCHANGED <<mounted, trackerVars, menuVars, fetchVars, scrollY, innerHeight, layout,
                   eventsSinceFrame, scheduledAt, lastPass, recordSchedule, activeWrites, dateVars>>

\* the effect on [mobileMenuOpen]: document.body.style.overflow = mobileMenuOpen ? 'hidden' : 'unset'
OverflowFor(open) == IF open THEN "hidden" ELSE "unset"

\* HandleNavClick without setMobileMenuOpen(false)
HandleNavClickKeepingMenu(index) ==
    /\ mounted
    /\ ScrollToSection(sections[index])
    /\ UNCHANGED <<mounted, trackerVars, menuVars, fetchVars, scrollY, innerHeight, layout,
                   eventsSinceFrame, scheduledAt, lastPass, recordSchedule, activeWrites, dateVars>>

\* scrollToSection(sections[index]); setMobileMenuOpen(false);
HandleNavClick(index) ==
    /\ mounted
    /\ ScrollToSection(sections[index])
    /\ mobileMenuOpen' = FALSE
    /\ bodyOverflow' = OverflowFor(FALSE)
    /\ UNCHANGED <<mounted, trackerVars, fetchVars, scrollY, innerHeight, layout,
                   eventsSinceFrame, scheduledAt, lastPass, recordSchedule, activeWrites, dateVars>>

\* onClick={() => setMobileMenuOpen(!mobileMenuOpen)}
ToggleMobileMenu ==
    /\ mounted
    /\ mobileMenuOpen' = ~mobileMenuOpen
    /\ bodyOverflow' = OverflowFor(~mobileMenuOpen)
    /\ UNCHANGED <<mounted, trackerVars, fetchVars, browserVars, historyVars, dateVars>>

\* the backdrop, rendered only while the menu is open: setMobileMenuOpen(false)
BackdropClick ==
    /\ mounted
    /\ mobileMenuOpen
    /\ mobileMenuOpen' = FALSE
    /\ bodyOverflow' = OverflowFor(FALSE)
    /\ UNCHANGED <<mounted, trackerVars, fetchVars, browserVars, historyVars, dateVars>>

\* Unmount without the cleanup of the effect on [mobileMenuOpen]
UnmountKeepingOverflow ==
    /\ mounted
    /\ mounted' = FALSE
    /\ UNCHANGED <<trackerVars, menuVars, fetchVars, browserVars, historyVars, dateVars>>

\* The view unmounts: the cleanups run. removeEventListener('scroll', throttledScroll)
\* and document.body.style.overflow = 'unset'; a requested frame stays requested.
Unmount ==
    /\ mounted
    /\ mounted' = FALSE
    /\ bodyOverflow' = "unset"
    /\ UNCHANGED <<trackerVars, mobileMenuOpen, fetchVars, browserVars, historyVars, dateVars>>

----------------------------------------------------------------------------
(* The navigation links *)

\* const navItems = ['Prologue', 'Story', 'Journey', 'Works', 'Services', 'Articles', 'Epilogue']
navItems == <<"Prologue", "Story", "Journey", "Works", "Services", "Articles", "Epilogue">>

\* NavLinkActive comparing activeSection with the label instead of the id
NavLinkActiveByLabel(index) == activeSection = navItems[index]

\* className={`nav-link ${activeSection === sections[index] ? 'active' : ''}`}
NavLinkActive(index) == activeSection = sections[index]

\* navItems.map((item, index) => ...): the links that carry 'active'
ActiveLinks == {index \in 1..Len(navItems) : NavLinkActive(index)}

\* The older page: sections and navItems
olderSections ==
    <<"home", "about", "experience", "education", "projects", "services", "contact">>

olderNavItems ==
    <<"Home", "About", "Experience", "Education", "Projects", "Services", "Contact">>

\* the characters of the older page's ids and labels
Spell ==
    [ home |-> <<"h", "o", "m", "e">>,
      about |-> <<"a", "b", "o", "u", "t">>,
      experience |-> <<"e", "x", "p", "e", "r", "i", "e", "n", "c", "e">>,
      education |-> <<"e", "d", "u", "c", "a", "t", "i", "o", "n">>,
      projects |-> <<"p", "r", "o", "j", "e", "c", "t", "s">>,
      services |-> <<"s", "e", "r", "v", "i", "c", "e", "s">>,
      contact |-> <<"c", "o", "n", "t", "a", "c", "t">>,
      Home |-> <<"H", "o", "m", "e">>,
      About |-> <<"A", "b", "o", "u", "t">>,
      Experience |-> <<"E", "x", "p", "e", "r", "i", "e", "n", "c", "e">>,
      Education |-> <<"E", "d", "u", "c", "a", "t", "i", "o", "n">>,
      Projects |-> <<"P", "r", "o", "j", "e", "c", "t", "s">>,
      Services |-> <<"S", "e", "r", "v", "i", "c", "e", "s">>,
      Contact |-> <<"C", "o", "n", "t", "a", "c", "t">> ]

UpperCase == <<"A", "B", "C", "D", "E", "F", "G", "H", "I", "J", "K", "L", "M", "N", "O", "P", "Q", "R", "S", "T", "U", "V", "W", "X", "Y", "Z">>

LowerCase == <<"a", "b", "c", "d", "e", "f", "g", "h", "i", "j", "k", "l", "m", "n", "o", "p", "q", "r", "s", "t", "u", "v", "w", "x", "y", "z">>

ToLowerChar(c) ==
    IF \E i \in 1..Len(UpperCase) : UpperCase[i] = c
    THEN LowerCase[CHOOSE i \in 1..Len(UpperCase) : UpperCase[i] = c]
    ELSE c

\* item.toLowerCase()
ToLowerCase(chars) == [i \in 1..Len(chars) |-> ToLowerChar(chars[i])]

\* className={`nav-link ${activeSection === item.toLowerCase() ? 'active' : ''}`}
OlderNavLinkActive(active, item) == Spell[active] = ToLowerCase(Spell[item])

\* navItems.map((item) => ...) of the older page, activeSection being active
OlderActiveLinks(active) ==
    {index \in 1..Len(olderNavItems) : OlderNavLinkActive(active, olderNavItems[index])}

----------------------------------------------------------------------------
(* The browser *)

\* The user scrolls to offset y: a running smooth scroll is abandoned and a
\* scroll event is dispatched.
UserScroll(y) ==
    /\ y /= scrollY
    /\ scrollY' = y
    /\ smooth' = Idle
    /\ DispatchScroll
    /\ RecordPass("outdated")
    /\ UNCHANGED <<mounted, activeSection, showBackToTop, menuVars, fetchVars,
                   innerHeight, layout, lastNav, recordSchedule, activeWrites, dateVars>>

\* A further scroll event at the same offset (events fire faster than frames).
ScrollEvent ==
    /\ mounted
    /\ scrollY' = scrollY
    /\ DispatchScroll
    /\ UNCHANGED lastPass
    /\ UNCHANGED <<mounted, activeSection, showBackToTop, menuVars, fetchVars,
                   innerHeight, layout, smooth, lastNav, recordSchedule, activeWrites, dateVars>>

\* The smooth scroll passes an offset between the current one and its target.
SmoothStep(y) ==
    /\ smooth.phase = "animating"
    /\ LET target == Clamp(smooth.top, layout, innerHeight) IN
       \/ scrollY < y /\ y < target
       \/ target < y /\ y < scrollY
    /\ scrollY' = y
    /\ DispatchScroll
    /\ RecordPass("outdated")
    /\ UNCHANGED <<mounted, activeSection, showBackToTop, menuVars, fetchVars,
                   innerHeight, layout, smooth, lastNav, recordSchedule, activeWrites, dateVars>>

\* The smooth scroll ends at its target, clamped to the document, with a last
\* scroll event when the offset changed.
SmoothArrive ==
    /\ smooth.phase = "animating"
    /\ LET target == Clamp(smooth.top, layout, innerHeight) IN
       /\ scrollY' = target
       /\ smooth' = [smooth EXCEPT !.phase = "arrived"]
       /\ IF target /= scrollY
          THEN DispatchScroll /\ RecordPass("outdated")
          ELSE UNCHANGED <<rafQueue, ticking, scheduledAt, eventsSinceFrame, lastPass>>
    /\ UNCHANGED <<mounted, activeSection, showBackToTop, menuVars, fetchVars,
                   innerHeight, layout, lastNav, recordSchedule, activeWrites, dateVars>>

\* The document is laid out anew (content rendered, images loaded) or the
\* window is resized. No scroll listener runs for either unless the browser
\* has to clamp the scroll offset; the component has no resize listener.
Relayout(lay, ih) ==
    /\ <<lay, ih>> /= <<layout, innerHeight>>
    /\ layout' = lay
    /\ innerHeight' = ih
    /\ scrollY' = Clamp(scrollY, lay, ih)
    /\ smooth' = IF smooth.phase = "arrived" THEN Idle ELSE smooth
    /\ IF scrollY' /= scrollY
       THEN DispatchScroll
       ELSE UNCHANGED <<rafQueue, ticking, scheduledAt, eventsSinceFrame>>
    /\ RecordPass("outdated")
    /\ UNCHANGED <<mounted, activeSection, showBackToTop, menuVars, fetchVars,
                   lastNav, recordSchedule, activeWrites, dateVars>>

----------------------------------------------------------------------------
(* fetchArticles *)

\* n characters of text
Text(n) == [i \in 1..n |-> "x"]

\* a paragraph whose text is one character longer than the excerpt kept
LongDescription ==
    <<"<", "p", ">">> \o Text(ExcerptLength + 1) \o <<"<", "/", "p", ">">>

\* item.description values of the feed, as character sequences
Descriptions ==
    { <<"<", "p", ">", "H", "i", "<", "/", "p", ">">>, <<"a", "<", "b">>, <<>>,
      Text(ExcerptLength), LongDescription }

\* the least and the greatest number of a non-empty set
Least(S) == CHOOSE x \in S : \A y \in S : x <= y
Greatest(S) == CHOOSE x \in S : \A y \in S : x >= y

\* the position of the first '>' at or after position i, 0 when there is none
IndexOfGt(str, i) ==
    LET found == {j \in i..Len(str) : str[j] = ">"} IN
    IF found = {} THEN 0 ELSE Least(found)

\* the position of the first match of <[^>]*>: the first '<' with a '>'
\* somewhere after it, 0 when there is none
IndexOfTag(str) ==
    LET closing == {j \in 1..Len(str) : str[j] = ">"}
        found == IF closing = {} THEN {}
                 ELSE {q \in 1..Greatest(closing) : str[q] = "<"}
    IN IF found = {} THEN 0 ELSE Least(found)

\* .replace(/<[^>]*>/g, ''): every '<' up to the next '>' is removed; a '<'
\* with no '>' after it stays. One recursion per match.
RECURSIVE StripTags(_)
StripTags(str) ==
    LET q == IndexOfTag(str) IN
    IF q = 0 THEN str
    ELSE SubSeq(str, 1, q - 1)
            \o StripTags(SubSeq(str, IndexOfGt(str, q + 1) + 1, Len(str)))

Substring(str, n) == SubSeq(str, 1, Min(n, Len(str)))

\* description: item.description.replace(...).substring(0, 150) + '...'
FormatDescription(description) ==
    Substring(StripTags(description), ExcerptLength) \o <<".", ".", ".">>

\* the mapped record; title, link, pubDate, thumbnail, categories are copied
FormatItem(item) ==
    [title |-> item.title, description |-> FormatDescription(item.description)]

\* FormatArticles without the slice
FormatArticlesAll(items) ==
    [i \in 1..Len(items) |-> FormatItem(items[i])]

\* data.items.slice(0, 6).map(...)
FormatArticles(items) ==
    [i \in 1..Min(MaxArticles, Len(items)) |-> FormatItem(items[i])]

\* n feed items; hasDescription = FALSE stands for an item without description
ItemsOf(n, has, d) ==
    [i \in 1..n |-> [title |-> i, hasDescription |-> has, description |-> d]]

\* what the request can end in: fetch rejects, response.json() rejects, or a
\* JSON body; hasItems = FALSE stands for a body without an items list
FeedResponses ==
    { [kind |-> k, status |-> "", hasItems |-> FALSE, items |-> <<>>] :
          k \in {"networkError", "notJson"} }
    \cup { [kind |-> "json", status |-> st, hasItems |-> FALSE, items |-> <<>>] :
             st \in {"ok", "error"} }
    \cup { [kind |-> "json", status |-> "ok", hasItems |-> TRUE, items |-> ItemsOf(n, TRUE, d)] :
             n \in {0, 1, MaxArticles + MaxExtraItems}, d \in Descriptions }
    \cup { [kind |-> "json", status |-> "ok", hasItems |-> TRUE, items |-> ItemsOf(1, FALSE, <<>>)],
           [kind |-> "json", status |-> "error", hasItems |-> TRUE, items |-> ItemsOf(1, TRUE, <<>>)] }

\* data.status === 'ok' && data.items
Accepted(response) == response.status = "ok" /\ response.hasItems

\* one response for each way the request can end: rejected, answered with no
\* items, answered with more items than are kept
PageResponses ==
    {r \in FeedResponses :
        \/ r.kind = "networkError"
        \/ Accepted(r) /\ r.items = <<>>
        \/ Accepted(r) /\ Len(r.items) > MaxArticles /\ r.items[1].description = <<>>}

\* a rejected promise, or item.description.replace on an item without
\* description (a TypeError), among the items that are mapped
Throws(response) ==
    \/ response.kind /= "json"
    \/ /\ Accepted(response)
       /\ \E i \in 1..Min(MaxArticles, Len(response.items)) :
             ~response.items[i].hasDescription

\* FetchSettle without the catch and the finally: the rejection leaves fetchArticles
FetchSettleUncaught(response) ==
    /\ fetchPc = "awaiting"
    /\ UNCHANGED requestsSent
    /\ IF Throws(response)
       THEN /\ fetchPc' = "rejected"
            /\ UNCHANGED <<articles, articlesLoading>>
       ELSE /\ fetchPc' = "done"
            /\ articles' = IF Accepted(response)
                           THEN FormatArticles(response.items)
                           ELSE articles
            /\ articlesLoading' = FALSE
    /\ UNCHANGED console
    /\ UNCHANGED <<mounted, trackerVars, menuVars, browserVars, historyVars, dateVars>>

\* FetchSettle with the tracker set back to its first section by the new articles
FetchSettleResetting(response) ==
    /\ fetchPc = "awaiting"
    /\ UNCHANGED requestsSent
    /\ fetchPc' = "done"
    /\ IF Throws(response)
       THEN /\ console' = console \cup {"Failed to fetch articles:"}
            /\ UNCHANGED articles
       ELSE /\ articles' = IF Accepted(response)
                           THEN FormatArticles(response.items)
                           ELSE articles
            /\ UNCHANGED console
    /\ articlesLoading' = FALSE
    /\ activeSection' = sections[1]
    /\ UNCHANGED <<mounted, showBackToTop, ticking, rafQueue, menuVars, browserVars, historyVars, dateVars>>

\* FetchSettle with setArticlesLoading(false) at the end of the try block
\* instead of in finally
FetchSettleWithoutFinally(response) ==
    /\ fetchPc = "awaiting"
    /\ UNCHANGED requestsSent
    /\ fetchPc' = "done"
    /\ IF Throws(response)
       THEN /\ console' = console \cup {"Failed to fetch articles:"}
            /\ UNCHANGED <<articles, articlesLoading>>
       ELSE /\ articles' = IF Accepted(response)
                           THEN FormatArticles(response.items)
                           ELSE articles
            /\ articlesLoading' = FALSE
            /\ UNCHANGED console
    /\ UNCHANGED <<mounted, trackerVars, menuVars, browserVars, historyVars, dateVars>>

\* FetchSettle sending the request again after a failure or an empty answer
FetchSettleRetrying(response) ==
    /\ fetchPc = "awaiting"
    /\ IF Throws(response)
       THEN /\ console' = console \cup {"Failed to fetch articles:"}
            /\ fetchPc' = "awaiting"
            /\ requestsSent' = requestsSent + 1
            /\ UNCHANGED articles
       ELSE /\ articles' = IF Accepted(response)
                           THEN FormatArticles(response.items)
                           ELSE articles
            /\ fetchPc' = IF articles' = <<>> THEN "awaiting" ELSE "done"
            /\ requestsSent' = IF articles' = <<>> THEN requestsSent + 1 ELSE requestsSent
            /\ UNCHANGED console
    /\ articlesLoading' = FALSE
    /\ UNCHANGED <<mounted, trackerVars, menuVars, browserVars, historyVars, dateVars>>

\* The awaited request settles and fetchArticles runs to its end:
\* try { ... if (data.status === 'ok' && data.items) setArticles(formatted) }
\* catch (error) { console.error(...) } finally { setArticlesLoading(false) }
FetchSettle(response) ==
    /\ fetchPc = "awaiting"
    /\ UNCHANGED requestsSent
    /\ fetchPc' = "done"
    /\ IF Throws(response)
       THEN /\ console' = console \cup {"Failed to fetch articles:"}
            /\ UNCHANGED articles
       ELSE /\ articles' = IF Accepted(response)
                           THEN FormatArticles(response.items)
                           ELSE articles
            /\ UNCHANGED console
    /\ articlesLoading' = FALSE
    /\ UNCHANGED <<mounted, trackerVars, menuVars, browserVars, historyVars, dateVars>>

\* what the articles grid renders:
\* articlesLoading ? spinner : articles.length > 0 ? cards : "Articles coming soon..."
ArticlesView ==
    IF articlesLoading THEN "loading"
    ELSE IF Len(articles) > 0 THEN "cards"
    ELSE "comingSoon"

----------------------------------------------------------------------------
(* dateUtils: getCachedDate, calculateYearsOfExperience, getCurrentYear *)

Date(year, month) == [year |-> year, month |-> month]

\* the calendar while the clock runs: the end of a year and the months after it
FirstDate == Date(2025, 12)
LastDate == Date(2026, 2)

NextMonth(date) ==
    IF date.month = 12 THEN Date(date.year + 1, 1) ELSE Date(date.year, date.month + 1)

\* the time the clock runs for
MaxNow == MaxPeriods * CacheMs

\* the times that pass between two calls: just less than a cache period, and a cache period
TickMs == {CacheMs - 1, CacheMs}

\* the time that passes between Date.now() and new Date() inside getCachedDate
ReadDelays == {0, 1}

\* the start dates calculateYearsOfExperience is called with: the two of its
\* documentation, and one that is in the future for all of the calendar
StartDates == {Date(2018, 1), Date(2019, 10), Date(2026, 6)}

\* the start years it is called with when startMonth is left to its default
StartYears == {2018, 2027}

NoCall ==
    [fn |-> "none", at |-> 0, startYear |-> 0, startMonth |-> 0,
     year |-> 0, month |-> 0, result |-> 0]

\* Time passes; the month may end meanwhile. The clock does not go back.
Tick(ms, monthEnds) ==
    /\ now + ms <= MaxNow
    /\ now' = now + ms
    /\ clockDate' = IF monthEnds THEN NextMonth(clockDate) ELSE clockDate
    /\ monthEnds => clockDate /= LastDate
    /\ UNCHANGED <<cachedYear, cachedMonth, lastCheck, readAt, lastCall>>
    /\ UNCHANGED pageVars

\* CacheFresh with a cache that is still good after exactly 60000 ms
CacheFreshInclusive ==
    cachedYear /= Null /\ cachedMonth /= Null /\ now - lastCheck <= CacheMs

\* cachedYear !== null && cachedMonth !== null && now - lastCheck < 60000
CacheFresh ==
    cachedYear /= Null /\ cachedMonth /= Null /\ now - lastCheck < CacheMs

\* getCachedDate: const now = Date.now(); the cached values when the cache is
\* fresh; otherwise new Date(), constructed delay ms later and after the end of
\* the month when monthEnds, fills the cache and lastCheck = now. What it
\* returns is <<cachedYear', cachedMonth'>> in both cases.
GetCachedDate(delay, monthEnds) ==
    IF CacheFresh
    THEN /\ delay = 0 /\ ~monthEnds
         /\ UNCHANGED <<now, clockDate, cachedYear, cachedMonth, lastCheck, readAt>>
    ELSE /\ now + delay <= MaxNow + 1
         /\ monthEnds => (delay > 0 /\ clockDate /= LastDate)
         /\ now' = now + delay
         /\ clockDate' = IF monthEnds THEN NextMonth(clockDate) ELSE clockDate
         /\ cachedYear' = clockDate'.year
         /\ cachedMonth' = clockDate'.month
         /\ lastCheck' = now
         /\ readAt' = now'

\* YearsOfExperience without the lower limit of 0
YearsOfExperienceSigned(startYear, startMonth, currentYear, currentMonth) ==
    IF currentMonth < startMonth
    THEN currentYear - startYear - 1
    ELSE currentYear - startYear

\* let years = currentYear - startYear; if (currentMonth < startMonth) years -= 1;
\* return Math.max(0, years)
YearsOfExperience(startYear, startMonth, currentYear, currentMonth) ==
    LET years == currentYear - startYear
        fullYears == IF currentMonth < startMonth THEN years - 1 ELSE years
    IN Max(0, fullYears)

\* calculateYearsOfExperience(startYear, startMonth)
CalculateYearsOfExperience(startYear, startMonth, delay, monthEnds) ==
    /\ GetCachedDate(delay, monthEnds)
    /\ lastCall' = [fn |-> "calculateYearsOfExperience", at |-> now,
                    startYear |-> startYear, startMonth |-> startMonth,
                    year |-> cachedYear', month |-> cachedMonth',
                    result |-> YearsOfExperience(startYear, startMonth, cachedYear', cachedMonth')]
    /\ UNCHANGED pageVars

\* calculateYearsOfExperience(startYear): startMonth takes its default
CalculateYearsSince(startYear, delay, monthEnds) ==
    CalculateYearsOfExperience(startYear, DefaultStartMonth, delay, monthEnds)

\* getCurrentYear(): getCachedDate().year
GetCurrentYear(delay, monthEnds) ==
    /\ GetCachedDate(delay, monthEnds)
    /\ lastCall' = [fn |-> "getCurrentYear", at |-> now, startYear |-> 0, startMonth |-> 0,
                    year |-> cachedYear', month |-> cachedMonth', result |-> cachedYear']
    /\ UNCHANGED pageVars

\* the module as it is loaded: nothing cached, lastCheck = 0
InitDateUtils ==
    /\ now = 0
    /\ clockDate = FirstDate
    /\ cachedYear = Null
    /\ cachedMonth = Null
    /\ lastCheck = 0
    /\ readAt = 0
    /\ lastCall = NoCall

----------------------------------------------------------------------------
(* The state after the first render and its effects, and the steps *)

\* the view as the first render and the mount effects leave it, at whatever
\* offset the document is scrolled to
InitView ==
    /\ mounted = TRUE
    /\ activeSection = "home"
    /\ showBackToTop = FALSE
    /\ mobileMenuOpen = FALSE
    /\ bodyOverflow = "unset"
    /\ ticking = FALSE
    /\ rafQueue = 0
    /\ layout \in LayoutNames
    /\ innerHeight \in ViewportHeights
    /\ smooth = Idle
    /\ articles = <<>>
    /\ articlesLoading = TRUE
    /\ fetchPc = "awaiting"
    /\ console = {}
    /\ requestsSent = 1
    /\ eventsSinceFrame = 0
    /\ scheduledAt = 0
    /\ lastNav = [called |-> FALSE, commands |-> 0]
    /\ activeWrites = 0
    /\ lastPass = "mounted"
    /\ InitDateUtils

\* the view mounted in a document that is at its top
InitState == InitView /\ scrollY = 0

Init == InitState /\ recordSchedule = FALSE

\* The tracker with navigation: scrolling, frames, scrollToSection from the nav
\* links and buttons, the smooth scroll, layout changes, unmount.
Next ==
    \/ \E y \in CoarseOffsets(layout, innerHeight) : UserScroll(y)
    \/ ScrollEvent
    \/ FrameCallback
    \/ \E id \in NavIds : ClickScrollTo(id)
    \/ \E index \in 1..Len(sections) : HandleNavClick(index)
    \/ \E y \in CoarseOffsets(layout, innerHeight) : SmoothStep(y)
    \/ SmoothArrive
    \/ \E lay \in LayoutNames : Relayout(lay, innerHeight)
    \/ Unmount

Spec == Init /\ [][Next]_vars

\* The recomputation over the fine grid of offsets, both layouts and both
\* viewport heights, with the offset at which each frame was requested recorded.
NextGeometry ==
    \/ \E y \in ScrollOffsets(layout, innerHeight) : UserScroll(y)
    \/ ScrollEvent
    \/ FrameCallback
    \/ \E lay \in LayoutNames, ih \in ViewportHeights : Relayout(lay, ih)
    \/ Unmount

InitGeometry == InitState /\ recordSchedule = TRUE

SpecGeometry == InitGeometry /\ [][NextGeometry]_vars

\* The whole page: the tracker, the navigation, the mobile menu and the article
\* fetch, each with few inputs.
NextPage ==
    \/ \E y \in PageOffsets(layout, innerHeight) : UserScroll(y)
    \/ ScrollEvent
    \/ FrameCallback
    \/ \E id \in NavIds : ClickScrollTo(id)
    \/ \E index \in 1..Len(sections) : HandleNavClick(index)
    \/ SmoothArrive
    \/ \E lay \in LayoutNames : Relayout(lay, innerHeight)
    \/ ToggleMobileMenu
    \/ BackdropClick
    \/ \E response \in PageResponses : FetchSettle(response)
    \/ Unmount

\* the larger of the two viewport heights
InitPage == InitState /\ recordSchedule = FALSE /\ innerHeight = 400

SpecPage == InitPage /\ [][NextPage]_vars

\* The view mounted in a document that is already scrolled (a reload with the
\* scroll offset restored, a remount), then scrolled by the user.
NextMount ==
    \/ \E y \in CoarseOffsets(layout, innerHeight) : UserScroll(y)
    \/ ScrollEvent
    \/ FrameCallback
    \/ Unmount

InitMount ==
    /\ InitView
    /\ scrollY \in ScrollOffsets(layout, innerHeight)
    /\ recordSchedule = TRUE

SpecMount == InitMount /\ [][NextMount]_vars

\* The article fetch with every way the request can end, next to a view that
\* is scrolled and unmounted.
NextFeed ==
    \/ \E response \in FeedResponses : FetchSettle(response)
    \/ \E y \in PageOffsets(layout, innerHeight) : UserScroll(y)
    \/ FrameCallback
    \/ Unmount

InitFeed ==
    /\ InitState
    /\ recordSchedule = FALSE
    /\ layout = "regular"
    /\ innerHeight = 400

SpecFeed == InitFeed /\ [][NextFeed]_vars

\* SpecMount with every requested frame callback run in the end: the browser
\* runs the callbacks of requestAnimationFrame before its next repaint.
SpecMountFair == SpecMount /\ WF_vars(FrameCallback)

\* dateUtils called while the clock runs over the end of a year, next to a view
\* that is left alone.
NextDate ==
    \/ \E ms \in TickMs, monthEnds \in BOOLEAN : Tick(ms, monthEnds)
    \/ \E start \in StartDates, delay \in ReadDelays, monthEnds \in BOOLEAN :
          CalculateYearsOfExperience(start.year, start.month, delay, monthEnds)
    \/ \E startYear \in StartYears, delay \in ReadDelays, monthEnds \in BOOLEAN :
          CalculateYearsSince(startYear, delay, monthEnds)
    \/ \E delay \in ReadDelays, monthEnds \in BOOLEAN : GetCurrentYear(delay, monthEnds)

InitDate ==
    /\ InitState
    /\ recordSchedule = FALSE
    /\ layout = "regular"
    /\ innerHeight = 400

SpecDate == InitDate /\ [][NextDate]_vars

----------------------------------------------------------------------------
(* Properties. The geometry is restated here from the layout itself, not *)
(* through the operators of handleScroll.                                *)

\* the probe position, doubled: 2 * (scrollY + innerHeight / 2)
Probe2 == 2 * scrollY + innerHeight

\* the configured sections that are rendered and whose extent
\* [offsetTop, offsetTop + offsetHeight) contains the probe
Containing ==
    {i \in 1..Len(sections) :
        LET e == Layouts[layout].el[sections[i]] IN
        /\ e.present
        /\ 2 * e.offsetTop <= Probe2
        /\ Probe2 < 2 * e.offsetTop + 2 * e.offsetHeight}

\* a step in which a frame callback ran
FrameRan == rafQueue' = rafQueue - 1

\* a scrollToSection(id) call, from a button or from a navigation item
CallScrollToSection(id) ==
    \/ ClickScrollTo(id)
    \/ \E index \in 1..Len(sections) : sections[index] = id /\ HandleNavClick(index)

Rendered(id) == id \in SectionIds /\ Layouts[layout].el[id].present

\* C1: while the view is mounted, exactly one frame callback is pending when
\* one or more scroll events have been delivered since the last frame callback
\* ran and none otherwise, so one handleScroll serves all of them; never are
\* two frame callbacks pending.
Coalescing ==
    /\ rafQueue <= 1
    /\ mounted => rafQueue = (IF eventsSinceFrame >= 1 THEN 1 ELSE 0)

CoalescingWitness ==
    mounted /\ eventsSinceFrame >= 2 /\ eventsSinceFrame = MaxBurst /\ rafQueue = 1

\* C2: once the view is unmounted, no step changes activeSection or
\* showBackToTop; in particular a frame callback requested before the cleanup
\* and run after it leaves both as they were.
NoMutationAfterTeardown ==
    [][~mounted => (activeSection' = activeSection /\ showBackToTop' = showBackToTop)]_vars

\* C3: in every reachable state activeSection is one of the configured
\* section ids.
ActiveSectionConfigured == activeSection \in SectionIds

ActiveSectionConfiguredWitness ==
    /\ activeSection = "contact"
    /\ fetchPc = "done"
    /\ lastNav.called
    /\ ~ticking

\* C4: when handleScroll runs with the probe inside the extent of exactly one
\* configured, rendered section, lower bound included and upper bound
\* excluded, activeSection is that section's id afterwards.
SingleSectionWins ==
    [][(FrameRan /\ Cardinality(Containing) = 1)
          => \A i \in Containing : activeSection' = sections[i]]_vars

\* a recomputation has run at this offset (every change of offset requests a
\* frame), the probe sits exactly on the top of the only section containing
\* it, where the previous section ends, and that section is the active one
SingleSectionWinsWitness ==
    /\ mounted /\ ~ticking /\ scrollY > 0
    /\ Cardinality(Containing) = 1
    /\ \A i \in Containing :
          /\ activeSection = sections[i]
          /\ i > 1
          /\ Probe2 = 2 * Layouts[layout].el[sections[i]].offsetTop

\* C5: when handleScroll runs with the probe in no configured section's
\* extent, activeSection keeps the value it had before.
StickyFallback ==
    [][(FrameRan /\ Containing = {}) => activeSection' = activeSection]_vars

\* a recomputation has run at an offset whose probe no section contains, and
\* activeSection is still a section other than the first
StickyFallbackWitness ==
    /\ mounted /\ ~ticking /\ scrollY > 0
    /\ showBackToTop = (scrollY > 300)
    /\ Containing = {}
    /\ activeSection \notin {"home", "contact"}

\* C6: after every execution of handleScroll, showBackToTop is true exactly
\* when the scroll offset read by it is greater than 300.
BackToTopThresholdExact ==
    [][FrameRan => (showBackToTop' <=> scrollY > 300)]_vars

BackToTopThresholdExactWitness ==
    /\ mounted /\ ~ticking
    /\ scrollY = 301
    /\ showBackToTop
    /\ Containing = {}

NavigateIssuesOneScroll ==
    [][\A id \in NavIds : (Rendered(id) /\ CallScrollToSection(id))
          => /\ lastNav' = [called |-> TRUE, commands |-> 1]
             /\ smooth' = [phase |-> "animating", sec |-> id,
                            top |-> Layouts[layout].el[id].offsetTop - 80]
             /\ activeSection' = activeSection]_vars

NavigateIssuesOneScrollWitness ==
    /\ mounted
    /\ lastNav.commands = 1
    /\ smooth.phase = "animating"
    /\ smooth.sec = "works"
    /\ smooth.top = Layouts[layout].el["works"].offsetTop - 80
    /\ activeSection = "about"

\* C9: when the smooth scroll started by scrollToSection(s), for a rendered
\* section s of positive height, has ended, uninterrupted, at offsetTop(s) - 80,
\* the frame callback that runs next sets activeSection to s.
NavigationConverges ==
    [][(/\ mounted
        /\ smooth.phase = "arrived"
        /\ Rendered(smooth.sec)
        /\ Layouts[layout].el[smooth.sec].offsetHeight > 0
        /\ scrollY = Layouts[layout].el[smooth.sec].offsetTop - 80
        /\ FrameRan)
          => activeSection' = smooth.sec]_vars

\* C10: a frame callback that runs after the scroll offset has changed since
\* the frame was requested yields the activeSection and showBackToTop of the
\* offset at the time it runs.
ReadsLiveOffset ==
    [][(FrameRan /\ scheduledAt /= scrollY)
          => /\ showBackToTop' <=> scrollY > 300
             /\ \A i \in Containing :
                   (\A j \in Containing : i <= j) => activeSection' = sections[i]
             /\ Containing = {} => activeSection' = activeSection]_vars

\* the frame was requested at an offset below the threshold and inside the
\* first section, and ran at an offset above it inside a later section
ReadsLiveOffsetWitness ==
    /\ mounted /\ ~ticking
    /\ recordSchedule
    /\ scheduledAt <= 300 /\ scrollY > 300
    /\ showBackToTop
    /\ Containing /= {}
    /\ \A i \in Containing : i > 2 /\ activeSection = sections[i]
    /\ 2 * scheduledAt + innerHeight < 2 * Layouts[layout].el["about"].offsetTop

\* C11: a handleScroll that runs when the scroll offset, the viewport height
\* and the layout are as they were at the previous handleScroll leaves
\* activeSection and showBackToTop as that one left them, and no handleScroll
\* changes anything of the view or the document other than these two fields.
HandleScrollIdempotent ==
    [][FrameRan
          => /\ lastPass \in {"current", "repeated"}
                   => UNCHANGED <<activeSection, showBackToTop>>
             /\ UNCHANGED <<mounted, mobileMenuOpen, bodyOverflow, articles, articlesLoading,
                            fetchPc, console, scrollY, innerHeight, layout, smooth>>]_vars

\* handleScroll has run twice in a row at an offset above the threshold with
\* the probe inside a section other than the first
HandleScrollIdempotentWitness ==
    /\ lastPass = "repeated"
    /\ showBackToTop /\ scrollY > 300
    /\ Containing /= {}
    /\ \A i \in Containing : i > 1 /\ activeSection = sections[i]

\* C12: while the view is mounted, a window resize or a change of section
\* geometry that comes with no scroll event (the scroll offset stays as it is)
\* requests a frame callback, so that a coalesced recomputation follows it.
ResizeSchedulesRecomputation ==
    [][(/\ mounted
        /\ scrollY' = scrollY
        /\ innerHeight' /= innerHeight \/ layout' /= layout)
          => (ticking' /\ rafQueue' = 1)]_vars

\* C13: right after the view has mounted, before any scroll event and before
\* the offset or the geometry changes, showBackToTop and activeSection are what
\* a recomputation at the current scroll offset yields: showBackToTop is true
\* exactly above offset 300, and activeSection is the first section containing
\* the probe when there is one.
MountReadsDocument ==
    (mounted /\ lastPass = "mounted" /\ eventsSinceFrame = 0)
        => /\ showBackToTop <=> scrollY > 300
           /\ \A i \in Containing :
                 (\A j \in Containing : i <= j) => activeSection = sections[i]

\* C14: once the view is unmounted the scroll listener is detached: no step
\* requests a frame callback any more, and a step in which the document
\* scrolls leaves the pending-frame flag, the frame queue, activeSection and
\* showBackToTop as they are, also while a frame callback requested before
\* the unmount is still pending.
ListenerDetached ==
    [][~mounted
          => /\ rafQueue' <= rafQueue
             /\ scrollY' /= scrollY
                   => UNCHANGED <<ticking, rafQueue, activeSection, showBackToTop>>]_vars

\* one scroll event was delivered, at offset scheduledAt, and its frame is
\* still pending; the view is unmounted and the document has scrolled since
ListenerDetachedWitness ==
    /\ ~mounted
    /\ ticking /\ rafQueue = 1
    /\ eventsSinceFrame = 1
    /\ recordSchedule /\ scheduledAt /= scrollY

\* the configured sections that have no element in the current layout
Missing == {i \in 1..Len(sections) : ~Layouts[layout].el[sections[i]].present}

\* the configured sections that have no element in one of the layouts
SometimesMissing ==
    {i \in 1..Len(sections) : \E lay \in LayoutNames : ~Layouts[lay].el[sections[i]].present}

\* C15: a handleScroll that runs while a configured section has no element
\* skips that section and still tests the others in order (the first of them
\* containing the probe becomes active, activeSection is kept when none does),
\* and a section that is missing at some time takes part whenever it has an
\* element: when it is the first one containing the probe it becomes active.
SkipsMissingSection ==
    [][FrameRan
          => /\ Missing /= {}
                   => /\ \A i \in Containing :
                            (\A j \in Containing : i <= j) => activeSection' = sections[i]
                      /\ Containing = {} => activeSection' = activeSection
             /\ \A i \in SometimesMissing \cap Containing :
                   (\A j \in Containing : i <= j) => activeSection' = sections[i]]_vars

\* handleScroll has run in a layout where a section is missing, and a section
\* that comes after the missing one in the list is the active one
SkipsMissingSectionWitness ==
    /\ lastPass \in {"current", "repeated"}
    /\ Missing /= {}
    /\ Containing /= {}
    /\ \A i \in Containing :
          /\ activeSection = sections[i]
          /\ \E m \in Missing : m < i

\* the configured sections whose element has height 0 in the current layout
ZeroHeight ==
    {i \in 1..Len(sections) :
        Layouts[layout].el[sections[i]].present
        /\ Layouts[layout].el[sections[i]].offsetHeight = 0}

\* C16: no handleScroll makes a section of height 0 the active section,
\* wherever the probe is, also exactly on the section's offsetTop; the pass
\* completes as any other.
ZeroHeightNeverWins ==
    [][FrameRan
          => \A i \in ZeroHeight :
                activeSection /= sections[i] => activeSection' /= sections[i]]_vars

\* handleScroll has run with the probe exactly on the top of a section of
\* height 0, and the section after it, which starts there too, is active
ZeroHeightNeverWinsWitness ==
    /\ lastPass \in {"current", "repeated"}
    /\ \E i \in ZeroHeight :
          /\ Probe2 = 2 * Layouts[layout].el[sections[i]].offsetTop
          /\ i + 1 \in Containing
          /\ activeSection = sections[i + 1]

\* a feed response with status "ok" and a list of items that all have a description
WellFormed(r) ==
    /\ r.kind = "json" /\ r.status = "ok" /\ r.hasItems
    /\ \A i \in 1..Len(r.items) : r.items[i].hasDescription

\* C17: when the fetch settles with a response of status "ok" and k items,
\* articles holds min(k, 6) records afterwards, the i-th made from the i-th
\* item, and each excerpt is the first 150 characters at most of the
\* description without its tags, followed by "...": 153 characters at most.
FeedLoaded ==
    [][\A r \in FeedResponses :
          (FetchSettle(r) /\ WellFormed(r))
             => /\ Len(articles') = (IF Len(r.items) < 6 THEN Len(r.items) ELSE 6)
                /\ \A i \in 1..Len(articles') :
                      LET text == StripTags(r.items[i].description)
                          excerpt == articles'[i].description
                          kept == Len(excerpt) - 3
                      IN /\ articles'[i].title = r.items[i].title
                         /\ Len(excerpt) <= 153
                         /\ kept = (IF Len(text) < 150 THEN Len(text) ELSE 150)
                         /\ SubSeq(excerpt, 1, kept) = SubSeq(text, 1, kept)
                         /\ SubSeq(excerpt, kept + 1, kept + 3) = <<".", ".", ".">>]_vars

\* the fetch has settled with more than six items whose description is longer
\* than 150 characters inside tags: six records in feed order, each excerpt
\* 153 characters long and starting with the text
FeedLoadedWitness ==
    /\ fetchPc = "done" /\ ~articlesLoading
    /\ Len(articles) = 6
    /\ \A i \in 1..6 :
          /\ articles[i].title = i
          /\ Len(articles[i].description) = 153
          /\ articles[i].description[1] = "x"
          /\ articles[i].description[151] = "."

\* a request that fails: the network fails, the body is not JSON, or one of the
\* items that are formatted has no description
FeedFailed(r) ==
    \/ r.kind \in {"networkError", "notJson"}
    \/ /\ r.kind = "json" /\ r.status = "ok" /\ r.hasItems
       /\ \E i \in 1..Len(r.items) : i <= 6 /\ ~r.items[i].hasDescription

FeedEmpty(r) == r.kind = "json" /\ r.status = "ok" /\ r.hasItems /\ r.items = <<>>

\* C19: the three outcomes of the fetch can be told apart from articles and
\* articlesLoading: a feed with items leaves a list of one to six articles, an
\* empty feed leaves the empty list with articlesLoading false, and a failed
\* fetch leaves a state other than the one an empty feed leaves.
OutcomesDistinguished ==
    [][\A r \in FeedResponses :
          FetchSettle(r)
             => /\ (WellFormed(r) /\ r.items /= <<>>)
                      => (Len(articles') \in 1..6 /\ ~articlesLoading')
                /\ FeedEmpty(r) => (articles' = <<>> /\ ~articlesLoading')
                /\ FeedFailed(r) => ~(articles' = <<>> /\ ~articlesLoading')]_vars

FetchedOnce ==
    [][/\ requestsSent = 1 /\ requestsSent' = 1
       /\ fetchPc' /= fetchPc => (fetchPc = "awaiting" /\ fetchPc' = "done")]_vars

\* the fetch has failed, and the menu was opened, a navigation target was
\* asked for and a scroll event requested a frame, with the fetch still done
FetchedOnceWitness ==
    /\ fetchPc = "done"
    /\ "Failed to fetch articles:" \in console
    /\ mobileMenuOpen
    /\ lastNav.called
    /\ ticking /\ scrollY > 0

\* max(0, (currentYear - startYear) - (1 if currentMonth < startMonth else 0))
FullYears(startYear, startMonth, currentYear, currentMonth) ==
    LET difference == (currentYear - startYear) - (IF currentMonth < startMonth THEN 1 ELSE 0)
    IN IF difference > 0 THEN difference ELSE 0

\* C22: calculateYearsOfExperience(startYear, startMonth) returns
\* max(0, (currentYear - startYear) - (1 if currentMonth < startMonth else 0)),
\* with startMonth 1 when it is left out and with the year and month that
\* getCachedDate gives as the current ones, which are those of the clock when
\* this call read it. The result is never negative. Start January 2018 in
\* December 2025 gives 7, start October 2019 in December 2025 gives 6.
YearsOfExperienceFormula ==
    [][/\ \A start \in StartDates, delay \in ReadDelays, monthEnds \in BOOLEAN :
             CalculateYearsOfExperience(start.year, start.month, delay, monthEnds)
                => /\ lastCall'.result
                         = FullYears(start.year, start.month, lastCall'.year, lastCall'.month)
                   /\ lastCall'.result >= 0
                   /\ ~CacheFresh => Date(lastCall'.year, lastCall'.month) = clockDate'
                   /\ (start = Date(2018, 1) /\ Date(lastCall'.year, lastCall'.month) = Date(2025, 12))
                         => lastCall'.result = 7
                   /\ (start = Date(2019, 10) /\ Date(lastCall'.year, lastCall'.month) = Date(2025, 12))
                         => lastCall'.result = 6
       /\ \A startYear \in StartYears, delay \in ReadDelays, monthEnds \in BOOLEAN :
             CalculateYearsSince(startYear, delay, monthEnds)
                => /\ lastCall'.result = FullYears(startYear, 1, lastCall'.year, lastCall'.month)
                   /\ lastCall'.result >= 0]_vars

\* the latest call had a start date after the current date, in a later month
\* of the same year, and returned 0
YearsOfExperienceFormulaWitness ==
    /\ lastCall.fn = "calculateYearsOfExperience"
    /\ lastCall.startYear = lastCall.year
    /\ lastCall.startMonth > lastCall.month
    /\ lastCall.result = 0

\* a step in which calculateYearsOfExperience or getCurrentYear is called
DateCalled ==
    \E delay \in ReadDelays, monthEnds \in BOOLEAN :
        \/ \E start \in StartDates :
               CalculateYearsOfExperience(start.year, start.month, delay, monthEnds)
        \/ \E startYear \in StartYears : CalculateYearsSince(startYear, delay, monthEnds)
        \/ GetCurrentYear(delay, monthEnds)

\* C23: every call of calculateYearsOfExperience or getCurrentYear uses a year
\* and month that were read from the clock less than 60000 ms before the
\* call; the first call, and every call made 60000 ms or more after the
\* latest read, reads the clock; and the year and the month used are those of
\* one and the same read.
CacheAtMostOneMinuteStale ==
    [][DateCalled
          => /\ lastCall'.at - readAt' < 60000
             /\ (lastCall = NoCall \/ now - readAt >= 60000)
                   => /\ lastCheck' = now
                      /\ readAt' = now'
                      /\ Date(lastCall'.year, lastCall'.month) = clockDate'
             /\ readAt' /= readAt
                   => Date(lastCall'.year, lastCall'.month) = clockDate'
             /\ readAt' = readAt /\ lastCall /= NoCall
                   => Date(lastCall'.year, lastCall'.month) = Date(lastCall.year, lastCall.month)]_vars

\* the latest call was made 59999 ms after the clock was read, after the month
\* had ended, and used the year and month of that read
CacheAtMostOneMinuteStaleWitness ==
    /\ lastCall.fn /= "none"
    /\ lastCall.at = now
    /\ now - readAt = 59999
    /\ Date(lastCall.year, lastCall.month) /= clockDate
    /\ NextMonth(Date(lastCall.year, lastCall.month)) = clockDate

\* C24: when handleScroll runs with the probe inside the extents of two or
\* more configured sections, activeSection is the one that comes first in the
\* list afterwards, and no handleScroll calls setActiveSection more than once:
\* once when some section contains the probe, not at all otherwise.
FirstMatchWins ==
    [][FrameRan
          => /\ Cardinality(Containing) >= 2
                   => \E i \in Containing :
                         /\ \A j \in Containing : i <= j
                         /\ activeSection' = sections[i]
             /\ recordSchedule
                   => /\ activeWrites' <= 1
                      /\ activeWrites' = 1 <=> Containing /= {}]_vars

\* handleScroll has run with the probe inside two overlapping sections: the
\* earlier one is active, and setActiveSection was called once
FirstMatchWinsWitness ==
    /\ lastPass \in {"current", "repeated"}
    /\ Cardinality(Containing) >= 2
    /\ activeWrites = 1
    /\ \E i \in Containing :
          /\ \A j \in Containing : i <= j
          /\ activeSection = sections[i]
          /\ sections[i] /= "home"

\* a step in which a scroll event is delivered to throttledScroll
EventDelivered == eventsSinceFrame' = eventsSinceFrame + 1

\* C25: a scroll event delivered while a frame callback is pending changes
\* neither the pending flag nor the frame queue nor the pending callback; one
\* delivered while none is pending requests exactly one callback and sets the
\* flag; and the flag is cleared only by a frame callback, in the step in
\* which handleScroll has run.
SingleSlotGate ==
    [][/\ (EventDelivered /\ ticking)
            => UNCHANGED <<ticking, rafQueue, scheduledAt, activeSection, showBackToTop>>
       /\ (EventDelivered /\ ~ticking)
            => /\ ticking' /\ rafQueue' = rafQueue + 1
               /\ recordSchedule => scheduledAt' = scrollY'
       /\ (ticking /\ ~ticking')
            => /\ FrameRan
               /\ showBackToTop' <=> scrollY > 300
               /\ lastPass' \in {"current", "repeated"}]_vars

\* two scroll events have been delivered since the last frame callback, the
\* second at another offset than the first: one callback is pending, as
\* requested by the first
SingleSlotGateWitness ==
    /\ mounted /\ recordSchedule
    /\ ticking /\ rafQueue = 1
    /\ eventsSinceFrame = 2
    /\ scheduledAt /= scrollY
    /\ lastPass = "outdated"

\* C26: with only scroll events changing the offset, whenever the view is
\* mounted and the latest handleScroll is older than the latest change of the
\* offset, a frame callback is pending; whenever the latest handleScroll is not
\* older, showBackToTop and activeSection are what handleScroll gives at the
\* current offset; and, frame callbacks being run in the end, a handleScroll
\* that is not older than the latest change does follow. So no scroll event is
\* lost although events delivered while a callback is pending are dropped.
NoLostUpdate ==
    /\ [](mounted /\ lastPass = "outdated" => ticking /\ rafQueue = 1)
    /\ [](lastPass \in {"current", "repeated"}
            => /\ showBackToTop <=> scrollY > 300
               /\ \A i \in Containing :
                     (\A j \in Containing : i <= j) => activeSection = sections[i])
    /\ (mounted /\ lastPass = "outdated") ~> (lastPass \in {"current", "repeated"})

\* a frame callback that was requested at another offset has run at the
\* current one, above the threshold and inside a section: the event at the
\* current offset was dropped, and the state is that of the current offset
NoLostUpdateWitness ==
    /\ mounted /\ ~ticking
    /\ lastPass = "current"
    /\ scheduledAt /= scrollY
    /\ scrollY > 300 /\ showBackToTop
    /\ Containing /= {}
    /\ \A i \in Containing : activeSection = sections[i] /\ i > 1

\* C27: while the view is mounted, document.body.style.overflow is 'hidden'
\* exactly when mobileMenuOpen is true, after every toggle, backdrop click and
\* nav click; once the view has unmounted it is 'unset', whatever the menu
\* state was at unmount.
BodyScrollLock ==
    /\ mounted => (bodyOverflow = "hidden" <=> mobileMenuOpen)
    /\ mounted => bodyOverflow \in {"hidden", "unset"}
    /\ ~mounted => bodyOverflow = "unset"

\* the view unmounted while the menu was open
BodyScrollLockWitness ==
    /\ ~mounted
    /\ mobileMenuOpen
    /\ bodyOverflow = "unset"

\* C28: handleNavClick(index) calls scrollToSection(sections[index]), one
\* smooth scroll to offsetTop - 80 of that section when its element exists and
\* no scroll command when it does not, and leaves mobileMenuOpen false whether
\* the menu was open or closed; activeSection and showBackToTop are unchanged.
NavClickEffect ==
    [][\A index \in 1..Len(sections) :
         HandleNavClick(index)
           => /\ lastNav'.called
              /\ IF Rendered(sections[index])
                 THEN /\ lastNav'.commands = 1
                      /\ smooth' = [phase |-> "animating", sec |-> sections[index],
                                    top |-> Layouts[layout].el[sections[index]].offsetTop - 80]
                 ELSE /\ lastNav'.commands = 0
                      /\ UNCHANGED smooth
              /\ ~mobileMenuOpen'
              /\ bodyOverflow' = "unset"
              /\ UNCHANGED <<activeSection, showBackToTop, scrollY>>]_vars

\* after a scrollToSection call for a section whose element is missing, made
\* below the threshold with another section than the first active: the menu
\* is closed, nothing scrolls, and the tracker state is as it was
NavClickEffectWitness ==
    /\ mounted
    /\ lastNav = [called |-> TRUE, commands |-> 0]
    /\ ~mobileMenuOpen /\ bodyOverflow = "unset"
    /\ smooth = Idle
    /\ activeSection /= "home"
    /\ showBackToTop

\* the older page: as many labels as ids, the ids pairwise distinct, every
\* label lower-cased the id at its position, and one active link for each id
OlderLinksAligned ==
    /\ Len(olderNavItems) = Len(olderSections)
    /\ \A i, j \in 1..Len(olderSections) : olderSections[i] = olderSections[j] => i = j
    /\ \A i \in 1..Len(olderNavItems) :
          /\ ToLowerCase(Spell[olderNavItems[i]]) = Spell[olderSections[i]]
          /\ OlderActiveLinks(olderSections[i]) = {i}

\* C29: in every reachable state exactly one navigation link carries
\* 'active', the one whose section id is activeSection. navItems and sections
\* have the same length and the ids are pairwise distinct; in the older page
\* every label lower-cased is the section id at its position, so there too
\* exactly one link is active for each configured activeSection.
NavHighlight ==
    /\ Len(navItems) = Len(sections)
    /\ \A i, j \in 1..Len(sections) : sections[i] = sections[j] => i = j
    /\ Cardinality(ActiveLinks) = 1
    /\ \A index \in ActiveLinks : sections[index] = activeSection
    /\ OlderLinksAligned

\* the tracker has made the fourth section active: the fourth link, 'Works',
\* is the active one
NavHighlightWitness ==
    /\ mounted
    /\ activeSection = "works"
    /\ ActiveLinks = {4}
    /\ navItems[4] = "Works"

\* C30: articlesLoading is true from mount until the request settles and
\* false in every state afterwards, never becoming true again; articles
\* changes only in a step that starts with articlesLoading true; and the
\* articles grid shows exactly one of its three views: the spinner while
\* loading, the cards when not loading and articles is non-empty, "coming
\* soon" when not loading and articles is empty.
ArticlesDisplay ==
    /\ [](articlesLoading <=> fetchPc = "awaiting")
    /\ [][(articlesLoading' => articlesLoading)
           /\ (articles' /= articles => articlesLoading /\ ~articlesLoading')]_vars
    /\ [](/\ ArticlesView = "loading" <=> articlesLoading
          /\ ArticlesView = "cards" <=> ~articlesLoading /\ articles /= <<>>
          /\ ArticlesView = "comingSoon" <=> ~articlesLoading /\ articles = <<>>
          /\ ArticlesView \in {"loading", "cards", "comingSoon"})

\* the request has settled with more items than are shown: loading is over
\* and the cards are shown
ArticlesDisplayWitness ==
    /\ fetchPc = "done"
    /\ ~articlesLoading
    /\ Len(articles) = MaxArticles
    /\ ArticlesView = "cards"

====
